---- MODULE Spec2Model ----
(***************************************************************************)
(* State-machine model of the VNC protocol bridge:                         *)
(*   src/guacamole/src/protocols/vnc/vnc.c  (RFB callbacks, session thread) *)
(*   src/unnamed/part_000                   (viewer join/leave/input)       *)
(* The session thread (guac_vnc_client_thread) and the viewer threads run   *)
(* concurrently; every action below is one atomic step of one thread.       *)
(***************************************************************************)
EXTENDS Integers, Sequences, FiniteSets, TLC

(***************************************************************************)
(* Bounds of the model.                                                    *)
(***************************************************************************)
MaxRetries == 1      \* largest value of the "retries" setting that is tried

\* Framebuffer sizes the server may announce, raw pixel words it may send,
\* and the colour depths / flag values the owner may ask for.
FBSizes == {<<1, 1>>, <<2, 1>>}
RawVals == {<<0, 0>>, <<0, 255>>}
ColorDepths == {32}

\* viewer 0 is the owner; there is one guest
Owner  == 0
Guests == {1}
Users  == {Owner} \cup Guests

NoSettings == [none |-> TRUE]
NoDisplay  == [none |-> TRUE]
NoRfb      == [none |-> TRUE]
NoView     == [none |-> TRUE]
NoUser     == -1
NoRect     == [x |-> 0, y |-> 0, w |-> 0, h |-> 0]
\* a callback record: the callback, its rectangle (for MallocFrameBuffer the
\* new size), the calls it made in order, whether the display existed,
\* whether the callback before it was a GotCopyRect (afterCopy) for the same
\* rectangle (paired), and for MallocFrameBuffer the results of the wrapped
\* allocator and of the override
Callback(kind, rect, ops) ==
    [kind |-> kind, rect |-> rect, ops |-> ops, hadDisplay |-> TRUE,
     afterCopy |-> FALSE, paired |-> FALSE, origRet |-> TRUE, ret |-> TRUE]
NoCb       == Callback("none", NoRect, <<>>)
\* a framebuffer cell the library has not written since it allocated the buffer
Indeterminate == <<-1, -1>>
NoFault    == [fn |-> "none", rfb_client |-> FALSE]
Freed      == [none |-> FALSE]
NoArg      == [fn |-> "none"]
NoRes      == [none |-> TRUE]

InputHandlers == {"mouse", "key", "clipboard"}

VARIABLES
    \* guac_vnc_client (shared by all threads)
    settings,        \* vnc_client->settings: the owner's settings, or NoSettings
    rfb_client,      \* vnc_client->rfb_client is non-NULL
    display,         \* vnc_client->display: NoDisplay, or the shared display
    copy_rect_used,  \* vnc_client->copy_rect_used
    state,           \* client->state
    \* the RFB library's client object (rfbClient), NoRfb until a connect succeeds
    rfb,
    \* locals of guac_vnc_client_thread
    pc, retries_remaining,
    wait_result,     \* declared in the loop body (vnc.c:738): 0 outside an iteration
    \* viewers (guac_user)
    ustate,          \* position of each viewer in its lifecycle
    usettings,       \* user->data
    handlers,        \* the input handlers installed on the viewer
    upc,             \* the library call a viewer thread is inside, or "idle"
    view,            \* the image described by what was written to the viewer's socket
    sdirty,          \* the viewer's socket holds unflushed output
    \* outcome of undefined behaviour
    fault,           \* NoFault, or the function that dereferenced a NULL display
                     \* and whether the upstream handle was set at that time
    \* history variables (observations of calls made; never read by the program)
    attempts,        \* calls of guac_vnc_get_client
    sleeps,          \* calls of guac_timestamp_msleep(GUAC_VNC_CONNECT_INTERVAL)
    aborts,          \* status codes passed to guac_client_abort, in order
    lastCb,          \* the most recent RFB callback and the surface calls it made
    errSeen,         \* a frame-loop library call has reported failure
    afterAbort,      \* HandleRFBServerMessage was called after an UPSTREAM_ERROR abort
    sawDisplay,      \* per guest: the display was non-NULL when its join checked it
    dupDone,         \* per guest: its join has replayed the display on its socket
    \* frame pacing (vnc.c:735-799).  The thread reads the clock only to take
    \* differences, so the model keeps the differences (in milliseconds)
    processing_lag,  \* processing_lag, sampled at the start of a frame (0 outside)
    timeout,         \* the timeout, in microseconds, of the wait being made
    frame_age,       \* guac_timestamp_current() - frame_start (0 outside a frame)
    since_last,      \* guac_timestamp_current() - last_frame_end
    \* more history variables
    woke,            \* time since the thread last flushed
    calls,           \* the calls that ended the latest outer iteration, or the thread
    midStop,         \* a message was handled while the client was not RUNNING
    \* a single call of a function of vnc.c on its own
    arg,             \* its arguments
    result           \* its result, NoRes until it has been called

sessVars  == <<settings, rfb_client, display, copy_rect_used, state, rfb>>
thrVars   == <<pc, retries_remaining, wait_result>>
userVars  == <<ustate, usettings, handlers, upc, view, sdirty>>
histVars  == <<attempts, sleeps, aborts, lastCb, errSeen, afterAbort,
               sawDisplay, dupDone>>
paceVars  == <<processing_lag, timeout, frame_age, since_last>>
obsVars   == <<woke, calls, midStop>>
callVars  == <<arg, result>>
vars == <<sessVars, thrVars, userVars, fault, histVars, paceVars, obsVars, callVars>>

(***************************************************************************)
(* Pixel translation (guac_vnc_update, vnc.c:227-249)                      *)
(***************************************************************************)
\* TLC's integers are 32-bit signed, so a 32-bit unsigned word v is held as
\* the pair <<hi, lo>> of its 16-bit halves: v = hi * 65536 + lo.
Pow2(n) == 2 ^ n
Word(hi, lo) == <<hi, lo>>
Shr(v, s) == v \div Pow2(s)

\* v >> s for 0 <= s < 32
ShrW(v, s) ==
    IF s >= 16 THEN <<0, Shr(v[1], s - 16)>>
    ELSE <<Shr(v[1], s), Shr(v[2], s) + (v[1] % Pow2(s)) * Pow2(16 - s)>>

\* guac_vnc_set_pixel_format: the format requested for a colour depth
guac_vnc_set_pixel_format(color_depth) ==
    CASE color_depth = 8 ->
           [bitsPerPixel |-> 8,  redShift |-> 0,  greenShift |-> 3, blueShift |-> 6,
            redMax |-> 7,  greenMax |-> 7,  blueMax |-> 3]
      [] color_depth = 16 ->
           [bitsPerPixel |-> 16, redShift |-> 11, greenShift |-> 5, blueShift |-> 0,
            redMax |-> 31, greenMax |-> 63, blueMax |-> 31]
      [] OTHER ->
           [bitsPerPixel |-> 32, redShift |-> 16, greenShift |-> 8, blueShift |-> 0,
            redMax |-> 255, greenMax |-> 255, blueMax |-> 255]

\* one channel expression, (v >> shift) * 0x100 / (max + 1), in unsigned
\* 32-bit arithmetic.  With q = v >> shift, the product q * 0x100 wraps to
\* (q mod 2^24) * 0x100 and has overflowed when q >= 2^24; writing
\* a = q mod 2^24 and m = max + 1, the quotient a * 0x100 / m is
\* 256 * (a / m) + (256 * (a mod m)) / m: `high' is the part above its low
\* 8 bits and `low' its low 8 bits.
ChannelQuotient(v, shift, max) ==
    LET q == ShrW(v, shift)
        a == (q[1] % 256) * 65536 + q[2]
        m == max + 1
    IN [overflow |-> q[1] >= 256,
        high     |-> a \div m,
        low      |-> (256 * (a % m)) \div m]

\* the channel as stored in an unsigned char: the low 8 bits of the quotient
Channel(v, shift, max) == ChannelQuotient(v, shift, max).low

\* the pixel at index i of a framebuffer row of bpp-byte pixels, read as
\* uint8_t, uint16_t or uint32_t on a little-endian host
ReadPixel(frameBuffer, bpp, i) ==
    LET byte(k) == IF k < bpp THEN frameBuffer[i * bpp + k + 1] ELSE 0
    IN Word(byte(3) * 256 + byte(2), byte(1) * 256 + byte(0))

\* a cursor mask packed 1 bit per pixel, MSB first, rows padded to bytes
MaskAlphaPacked(rcMask, w, dx, dy) ==
    LET byte == rcMask[dy * ((w + 7) \div 8) + dx \div 8 + 1]
    IN IF (byte \div Pow2(7 - (dx % 8))) % 2 = 1 THEN 255 ELSE 0

\* vnc.c:397-399: the alpha of cursor pixel (dx, dy); fb_mask advances by one
\* byte for every pixel, row after row
MaskAlpha(rcMask, w, dx, dy) ==
    IF rcMask[dy * w + dx + 1] # 0 THEN 255 ELSE 0

\* vnc.c:398: the indices of the mask bytes read for a w x h cursor
MaskRead(w, h) == {dy * w + dx + 1 : dx \in 0 .. (w - 1), dy \in 0 .. (h - 1)}

\* vnc.c:406-410: (alpha << 24) | rgb as a 32-bit word
ArgbWord(alpha, rgb) == Word(alpha * 256 + rgb \div 65536, rgb % 65536)

\* an output word with blue always in the high byte
TranslatePixelBgr(v, fmt, swap_red_blue) ==
    LET red   == Channel(v, fmt.redShift,   fmt.redMax)
        green == Channel(v, fmt.greenShift, fmt.greenMax)
        blue  == Channel(v, fmt.blueShift,  fmt.blueMax)
    IN blue * 65536 + green * 256 + red

\* the output word of one pixel
TranslatePixel(v, fmt, swap_red_blue) ==
    LET red   == Channel(v, fmt.redShift,   fmt.redMax)
        green == Channel(v, fmt.greenShift, fmt.greenMax)
        blue  == Channel(v, fmt.blueShift,  fmt.blueMax)
    IN IF swap_red_blue THEN blue * 65536 + green * 256 + red
                        ELSE red  * 65536 + green * 256 + blue

(***************************************************************************)
(* The shared display (common/display, common/surface): one default        *)
(* surface with a dirty region, and a shared cursor.                       *)
(***************************************************************************)
Cells(w, h) == (0..(w - 1)) \X (0..(h - 1))
RectCells(r) == (r.x..(r.x + r.w - 1)) \X (r.y..(r.y + r.h - 1))
Rects(w, h) == {r \in [x : 0..(w - 1), y : 0..(h - 1), w : 1..w, h : 1..h] :
                   r.x + r.w <= w /\ r.y + r.h <= h}
Blank(w, h) == [c \in Cells(w, h) |-> 0]
\* a framebuffer the library has just allocated
NewFrameBuffer(w, h) == [c \in Cells(w, h) |-> Indeterminate]

\* allocate(width, height)
guac_common_display_alloc(w, h) ==
    [w |-> w, h |-> h, px |-> Blank(w, h), dirty |-> {}, cursor |-> NoUser]

\* surface_draw: composite img (a function on the cells of r) at r
guac_common_surface_draw(d, r, img) ==
    [d EXCEPT !.px = [c \in DOMAIN d.px |->
                         IF c \in RectCells(r) THEN img[c] ELSE d.px[c]],
              !.dirty = d.dirty \cup (RectCells(r) \cap DOMAIN d.px)]

\* surface_copy: the w x h rectangle at (sx, sy) is copied to (dx, dy)
guac_common_surface_copy(d, sx, sy, w, h, dx, dy) ==
    LET dst == [x |-> dx, y |-> dy, w |-> w, h |-> h]
        from(c) == <<c[1] - dx + sx, c[2] - dy + sy>>
    IN [d EXCEPT !.px = [c \in DOMAIN d.px |->
                            IF c \in RectCells(dst) /\ from(c) \in DOMAIN d.px
                            THEN d.px[from(c)] ELSE d.px[c]],
                 !.dirty = d.dirty \cup (RectCells(dst) \cap DOMAIN d.px)]

\* an image resized to w x h: content kept where it fits, new cells blank
ResizeImage(px, w, h) ==
    [c \in Cells(w, h) |-> IF c \in DOMAIN px THEN px[c] ELSE 0]

\* surface_resize
guac_common_surface_resize(d, w, h) ==
    [d EXCEPT !.w = w, !.h = h, !.px = ResizeImage(d.px, w, h),
              !.dirty = d.dirty \cap Cells(w, h)]

\* cursor_update / cursor_remove_viewer
guac_common_cursor_update(d, u) == [d EXCEPT !.cursor = u]
guac_common_cursor_remove_user(d, u) ==
    [d EXCEPT !.cursor = IF d.cursor = u THEN NoUser ELSE d.cursor]

(***************************************************************************)
(* Viewer sockets.  client->socket broadcasts to every attached viewer;    *)
(* a viewer is attached once its join handler has returned 0.              *)
(***************************************************************************)
Attached(u) == ustate[u] = "in"

\* the image a viewer sees, as a display describes it
ImageOf(d) == [w |-> d.w, h |-> d.h, px |-> d.px]

\* a size instruction reaches a viewer
ViewResized(v, w, h) ==
    [w |-> w, h |-> h,
     px |-> IF v = NoView THEN Blank(w, h) ELSE ResizeImage(v.px, w, h)]

\* the dirty cells of the surface reach a viewer
ViewDrawn(v, d) ==
    IF v = NoView THEN v
    ELSE [v EXCEPT !.px = [c \in DOMAIN v.px |->
                              IF c \in d.dirty /\ c \in DOMAIN d.px
                              THEN d.px[c] ELSE v.px[c]]]

\* something was written to the broadcast socket
BroadcastWritten ==
    sdirty' = [u \in Users |-> IF Attached(u) THEN TRUE ELSE sdirty[u]]

\* guac_socket_flush(client->socket)
BroadcastFlushed(sd) == [u \in Users |-> IF Attached(u) THEN FALSE ELSE sd[u]]

\* guac_client_abort(client, status, ...): the error is recorded and the
\* client is stopped
guac_client_abort(status) ==
    /\ aborts' = Append(aborts, status)
    /\ state' = "STOPPING"

(***************************************************************************)
(* Clipboard encoding (guac_vnc_set_clipboard_encoding, vnc.c:630-671)     *)
(***************************************************************************)

\* the NULL encoding name
NULL == "(NULL)"

ISO8859_1 == [clipboard_reader |-> "GUAC_READ_ISO8859_1",
              clipboard_writer |-> "GUAC_WRITE_ISO8859_1"]
UTF8      == [clipboard_reader |-> "GUAC_READ_UTF8",
              clipboard_writer |-> "GUAC_WRITE_UTF8"]
UTF16     == [clipboard_reader |-> "GUAC_READ_UTF16",
              clipboard_writer |-> "GUAC_WRITE_UTF16"]
CP1252    == [clipboard_reader |-> "GUAC_READ_CP1252",
              clipboard_writer |-> "GUAC_WRITE_CP1252"]

\* the codec pair selected, the value returned and the messages logged
Selected(codec, ret, log) ==
    [clipboard_reader |-> codec.clipboard_reader,
     clipboard_writer |-> codec.clipboard_writer,
     ret |-> ret, log |-> log]

\* an encoding function that takes CP1252 for the standard encoding
SetEncodingCp1252Standard(name) ==
    IF name = NULL \/ name = "ISO8859-1" THEN Selected(ISO8859_1, 0, <<>>)
    ELSE IF name = "UTF-8"  THEN Selected(UTF8, 1, <<>>)
    ELSE IF name = "UTF-16" THEN Selected(UTF16, 1, <<>>)
    ELSE IF name = "CP1252" THEN Selected(CP1252, 0, <<>>)
    ELSE Selected(ISO8859_1, 0, <<"GUAC_LOG_WARNING">>)

guac_vnc_set_clipboard_encoding(name) ==
    IF name = NULL \/ name = "ISO8859-1" THEN Selected(ISO8859_1, 0, <<>>)
    ELSE IF name = "UTF-8"  THEN Selected(UTF8, 1, <<>>)
    ELSE IF name = "UTF-16" THEN Selected(UTF16, 1, <<>>)
    ELSE IF name = "CP1252" THEN Selected(CP1252, 1, <<>>)
    ELSE Selected(ISO8859_1, 0, <<"GUAC_LOG_WARNING">>)

(***************************************************************************)
(* RFB callbacks (vnc.c)                                                   *)
(***************************************************************************)
Alive == fault = NoFault

WholeRect(w, h) == [x |-> 0, y |-> 0, w |-> w, h |-> h]

\* image v is the upstream framebuffer translated to RGB (on every cell the
\* library has received since it allocated the framebuffer)
ShowsFrameBuffer(v) ==
    /\ v # NoView
    /\ v.w = rfb.width /\ v.h = rfb.height
    /\ \A c \in DOMAIN rfb.frameBuffer :
          rfb.frameBuffer[c] # Indeterminate =>
             v.px[c] = TranslatePixel(rfb.frameBuffer[c], rfb.format,
                                      settings.swap_red_blue)

\* a guac_vnc_update that never tests copy_rect_used
DrawAlways == FALSE

\* vnc.c:193-197: the update is ignored when a CopyRect has just been handled
SuppressUpdate == copy_rect_used

\* guac_vnc_update(client, x, y, w, h) on framebuffer fb: the new values of
\* display and copy_rect_used, and the surface calls made
guac_vnc_update(fb, r) ==
    IF SuppressUpdate
    THEN [display |-> display, copy_rect_used |-> FALSE, ops |-> <<>>]
    ELSE [display |-> guac_common_surface_draw(display, r,
                          [c \in RectCells(r) |->
                              TranslatePixel(fb[c], rfb.format, settings.swap_red_blue)]),
          copy_rect_used |-> copy_rect_used,
          ops |-> <<"surface_draw">>]

\* guac_vnc_copyrect(client, src_x, src_y, w, h, dest_x, dest_y)
guac_vnc_copyrect(src, dst) ==
    [display |-> guac_common_surface_copy(display, src.x, src.y, src.w, src.h,
                                          dst.x, dst.y),
     copy_rect_used |-> TRUE,
     ops |-> <<"surface_copy">>]

\* a guac_vnc_malloc_framebuffer that only calls the wrapped allocator
MallocWithoutResize(d, w, h, origRet) ==
    [display |-> d, ops |-> <<"rfb_MallocFrameBuffer">>, ret |-> origRet]

\* guac_vnc_malloc_framebuffer(rfb_client) with rfb_client->width = w and
\* rfb_client->height = h; origRet is what the wrapped allocator returns
guac_vnc_malloc_framebuffer(d, w, h, origRet) ==
    IF d # NoDisplay
    THEN [display |-> guac_common_surface_resize(d, w, h),
          ops |-> <<"surface_resize", "rfb_MallocFrameBuffer">>, ret |-> origRet]
    ELSE [display |-> d, ops |-> <<"rfb_MallocFrameBuffer">>, ret |-> origRet]

\* the record of a MallocFrameBuffer call
MallocCallback(d, w, h, origRet, m) ==
    [Callback("malloc", WholeRect(w, h), m.ops) EXCEPT
        !.hadDisplay = (d # NoDisplay), !.origRet = origRet, !.ret = m.ret]

(***************************************************************************)
(* The session thread: guac_vnc_client_thread (vnc.c:673-806)              *)
(***************************************************************************)
\* guac_vnc_get_client: one connection attempt.  On success the library has
\* called MallocFrameBuffer for the size the server announced.
guac_vnc_get_client(ok, sz) ==
    /\ attempts' = attempts + 1
    /\ IF ok
       THEN LET m == guac_vnc_malloc_framebuffer(display, sz[1], sz[2], TRUE)
            IN /\ rfb' = [width |-> sz[1], height |-> sz[2],
                          frameBuffer |-> NewFrameBuffer(sz[1], sz[2]),
                          format |-> guac_vnc_set_pixel_format(settings.color_depth)]
               /\ lastCb' = MallocCallback(display, sz[1], sz[2], TRUE, m)
               /\ display' = m.display
       ELSE UNCHANGED <<rfb, lastCb, display>>

\* a retry loop that tests retries_remaining >= 0
RetryCondOffByOne == rfb = NoRfb /\ retries_remaining >= 0

\* vnc.c:694: the condition of the retry loop
RetryCond == rfb = NoRfb /\ retries_remaining > 0

\* vnc.c:677-691: first connection attempt
T_Connect(e) ==
    /\ Alive /\ pc = "start"
    /\ \E ok \in e.connects, sz \in e.sizes : guac_vnc_get_client(ok, sz)
    /\ retries_remaining' = settings.retries
    /\ pc' = "retry"
    /\ UNCHANGED <<settings, rfb_client, copy_rect_used, state, wait_result,
                   userVars, fault, sleeps, aborts, errSeen, afterAbort,
                   sawDisplay, dupDone>>
    /\ UNCHANGED <<paceVars, obsVars, callVars>>

\* vnc.c:694-705: one iteration of the retry loop
T_Retry(e) ==
    /\ Alive /\ pc = "retry" /\ RetryCond
    /\ sleeps' = sleeps + 1
    /\ \E ok \in e.connects, sz \in e.sizes : guac_vnc_get_client(ok, sz)
    /\ retries_remaining' = retries_remaining - 1
    /\ UNCHANGED <<settings, rfb_client, copy_rect_used, state, pc, wait_result,
                   userVars, fault, aborts, errSeen, afterAbort,
                   sawDisplay, dupDone>>
    /\ UNCHANGED <<paceVars, obsVars, callVars>>

\* vnc.c:707-712: the final attempt failed
T_ConnectFailed ==
    /\ Alive /\ pc = "retry" /\ ~RetryCond /\ rfb = NoRfb
    /\ guac_client_abort("UPSTREAM_NOT_FOUND")
    /\ pc' = "returned"
    /\ UNCHANGED <<settings, rfb_client, display, copy_rect_used, rfb,
                   retries_remaining, wait_result, userVars, fault, attempts, sleeps,
                   lastCb, errSeen, afterAbort, sawDisplay, dupDone>>
    /\ UNCHANGED <<paceVars, obsVars, callVars>>

\* vnc.c:714-715
T_SetHandle ==
    /\ Alive /\ pc = "retry" /\ ~RetryCond /\ rfb # NoRfb
    /\ rfb_client' = TRUE
    /\ pc' = "alloc"
    /\ UNCHANGED <<settings, display, copy_rect_used, state, rfb, retries_remaining,
                   wait_result, userVars, fault, histVars>>
    /\ UNCHANGED <<paceVars, obsVars, callVars>>

\* vnc.c:717-732: allocate the display, set the cursor, flush
T_AllocDisplay ==
    /\ Alive /\ pc = "alloc"
    /\ display' = guac_common_display_alloc(rfb.width, rfb.height)
    /\ view' = [u \in Users |-> IF Attached(u)
                                THEN ViewResized(view[u], rfb.width, rfb.height)
                                ELSE view[u]]
    /\ sdirty' = BroadcastFlushed(sdirty)
    /\ since_last' = 0
    /\ woke' = 0
    /\ pc' = "loop"
    /\ UNCHANGED <<processing_lag, timeout, frame_age, calls, midStop, callVars>>
    /\ UNCHANGED <<settings, rfb_client, copy_rect_used, state, rfb, retries_remaining,
                   wait_result, ustate, usettings, handlers, upc, fault, attempts,
                   sleeps, aborts, lastCb, errSeen, afterAbort, sawDisplay, dupDone>>

\* vnc.h: the frame timing constants (FRAME_START_TIMEOUT in microseconds,
\* the others in milliseconds)
GUAC_VNC_FRAME_START_TIMEOUT == 1000000
GUAC_VNC_FRAME_DURATION      == 40
GUAC_VNC_FRAME_TIMEOUT       == 0

\* a time difference dt milliseconds later; differences beyond the scenario's
\* horizon are not told apart
Elapsed(t, dt, e) == IF t + dt > e.horizon THEN e.horizon ELSE t + dt

\* vnc.c:603-612: how long a wait with the timeout being made can last when
\* it returns r: the whole timeout when it times out, and otherwise any
\* delay the scenario offers that fits in it (none when data is buffered)
WaitTimes(r, e) ==
    IF r = 0 THEN {timeout \div 1000}
    ELSE {d \in e.delays : d * 1000 <= timeout}

\* a session loop that never tests the client state
LoopForever == TRUE

\* a session loop that runs until an error was reported
LoopUntilAbort == aborts = <<>>

\* vnc.c:735: the loop condition
LoopCond == state = "RUNNING"

\* a start-of-frame wait made with the in-frame timeout
OuterTimeoutShort == GUAC_VNC_FRAME_TIMEOUT * 1000

\* vnc.c:738-739: the timeout of the wait for the start of a frame
OuterTimeout == GUAC_VNC_FRAME_START_TIMEOUT

\* vnc.c:735-739: the loop condition, then the wait for the start of a frame
T_Loop ==
    /\ Alive /\ pc = "loop"
    /\ pc' = IF LoopCond THEN "wait" ELSE "stop"
    /\ timeout' = IF LoopCond THEN OuterTimeout ELSE timeout
    /\ calls' = <<>>
    /\ UNCHANGED <<sessVars, retries_remaining, wait_result, userVars, fault, histVars>>
    /\ UNCHANGED <<processing_lag, frame_age, since_last, woke, midStop, callVars>>

\* vnc.c:737-743: guac_vnc_wait_for_messages(FRAME_START_TIMEOUT) returns r;
\* when data is there, processing_lag and frame_start are sampled
T_WaitOuter(e) ==
    /\ Alive /\ pc = "wait"
    /\ \E r \in e.waits : \E dt \in WaitTimes(r, e) :
          /\ wait_result' = r
          /\ errSeen' = (errSeen \/ r < 0)
          /\ since_last' = Elapsed(since_last, dt, e)
          /\ woke' = Elapsed(woke, dt, e)
          /\ IF r > 0
             THEN /\ pc' = "handle"
                  /\ \E lag \in e.lags : processing_lag' = lag
             ELSE /\ pc' = "frame_end"
                  /\ UNCHANGED processing_lag
    /\ UNCHANGED <<sessVars, retries_remaining, userVars, fault, attempts, sleeps,
                   aborts, lastCb, afterAbort, sawDisplay, dupDone>>
    /\ UNCHANGED <<timeout, frame_age, calls, midStop, callVars>>

Aborted(status) == status \in {aborts[i] : i \in DOMAIN aborts}

\* an inner loop that stretches the frame by FRAME_TIMEOUT only
FrameWaitUnstretched(lag, time_elapsed, frame_remaining) ==
    IF lag - time_elapsed > GUAC_VNC_FRAME_TIMEOUT
    THEN [wait |-> TRUE, timeout |-> GUAC_VNC_FRAME_TIMEOUT * 1000]
    ELSE IF frame_remaining > 0
         THEN [wait |-> TRUE, timeout |-> GUAC_VNC_FRAME_TIMEOUT * 1000]
         ELSE [wait |-> FALSE, timeout |-> 0]

\* vnc.c:764-780: after a message, whether the inner loop waits again and
\* with which timeout (microseconds)
FrameWait(lag, time_elapsed, frame_remaining) ==
    LET required_wait == lag - time_elapsed
    IN IF required_wait > GUAC_VNC_FRAME_TIMEOUT
       THEN [wait |-> TRUE, timeout |-> required_wait * 1000]
       ELSE IF frame_remaining > 0
            THEN [wait |-> TRUE, timeout |-> GUAC_VNC_FRAME_TIMEOUT * 1000]
            ELSE [wait |-> FALSE, timeout |-> 0]

\* an inner loop that records the end of the frame: last_frame_end = frame_end
FrameLeftAtEnd(dt, e) ==
    /\ since_last' = 0
    /\ woke' = Elapsed(woke, dt, e)
    /\ frame_age' = 0
    /\ processing_lag' = 0
    /\ pc' = "frame_end"
    /\ UNCHANGED timeout

\* vnc.c:782-786: the inner loop is left dt milliseconds after the clock was
\* last read; last_frame_end = frame_start
FrameLeft(dt, e) ==
    /\ since_last' = Elapsed(frame_age, dt, e)
    /\ woke' = Elapsed(woke, dt, e)
    /\ frame_age' = 0
    /\ processing_lag' = 0
    /\ pc' = "frame_end"
    /\ UNCHANGED timeout

\* vnc.c:759-780 after a message was handled in dt milliseconds: frame_end is
\* read, then the loop waits again (stretched or FRAME_TIMEOUT) or ends the frame
AfterMessage(dt, e) ==
    LET age     == Elapsed(frame_age, dt, e)
        elapsed == Elapsed(since_last, dt, e)
        w       == FrameWait(processing_lag, elapsed, GUAC_VNC_FRAME_DURATION - age)
    IN /\ afterAbort' = (afterAbort \/ Aborted("UPSTREAM_ERROR"))
       /\ midStop' = (midStop \/ state # "RUNNING")
       /\ IF w.wait
          THEN /\ pc' = "inner_wait"
               /\ timeout' = w.timeout
               /\ frame_age' = age
               /\ since_last' = elapsed
               /\ woke' = Elapsed(woke, dt, e)
               /\ UNCHANGED processing_lag
          ELSE FrameLeft(dt, e)

\* vnc.c:752-757: HandleRFBServerMessage has failed after dt milliseconds
MessageFailed(dt, e) ==
    /\ guac_client_abort("UPSTREAM_ERROR")
    /\ errSeen' = TRUE
    /\ afterAbort' = (afterAbort \/ Aborted("UPSTREAM_ERROR"))
    /\ midStop' = (midStop \/ state # "RUNNING")
    /\ FrameLeft(dt, e)

\* the views of the attached viewers once a size instruction was broadcast
ViewsResized(w, h) ==
    [u \in Users |-> IF Attached(u) THEN ViewResized(view[u], w, h) ELSE view[u]]

\* vnc.c:752 HandleRFBServerMessage: the library decoded a rectangle into its
\* framebuffer and called GotFrameBufferUpdate.  The scratch buffer of
\* guac_vnc_update (vnc.c:201) is used unchecked: when its malloc fails the
\* first pixel is written through a NULL pointer.
CbUpdate(e) ==
    /\ Alive /\ pc = "handle"
    /\ \E r \in Rects(rfb.width, rfb.height), dt \in e.costs, buffer \in e.scratch :
       \E data \in [RectCells(r) -> e.raws] :
          LET fb == [c \in DOMAIN rfb.frameBuffer |->
                        IF c \in RectCells(r) THEN data[c] ELSE rfb.frameBuffer[c]]
              res == guac_vnc_update(fb, r)
          IN IF ~buffer /\ ~SuppressUpdate
             THEN /\ fault' = [fn |-> "guac_vnc_update", rfb_client |-> rfb_client]
                  /\ rfb' = [rfb EXCEPT !.frameBuffer = fb]
                  /\ UNCHANGED <<display, copy_rect_used, lastCb, afterAbort, pc,
                                 paceVars, woke, midStop>>
             ELSE /\ rfb' = [rfb EXCEPT !.frameBuffer = fb]
                  /\ display' = res.display
                  /\ copy_rect_used' = res.copy_rect_used
                  /\ lastCb' = [Callback("update", r, res.ops) EXCEPT
                                    !.afterCopy = (lastCb.kind = "copyrect"),
                                    !.paired = (lastCb.kind = "copyrect" /\ lastCb.rect = r)]
                  /\ AfterMessage(dt, e)
                  /\ UNCHANGED fault
    /\ UNCHANGED <<settings, rfb_client, state, retries_remaining, wait_result,
                   userVars, attempts, sleeps, aborts, errSeen,
                   sawDisplay, dupDone>>
    /\ UNCHANGED <<calls, callVars>>

\* vnc.c:752 HandleRFBServerMessage: the library received a CopyRect
\* rectangle and called GotCopyRect
CbCopyRect(e) ==
    /\ Alive /\ pc = "handle"
    /\ \E src \in Rects(rfb.width, rfb.height), dst \in Rects(rfb.width, rfb.height),
          dt \in e.costs :
          /\ src.w = dst.w /\ src.h = dst.h
          /\ LET from(c) == <<c[1] - dst.x + src.x, c[2] - dst.y + src.y>>
                 fb == [c \in DOMAIN rfb.frameBuffer |->
                           IF c \in RectCells(dst) THEN rfb.frameBuffer[from(c)]
                           ELSE rfb.frameBuffer[c]]
                 res == guac_vnc_copyrect(src, dst)
             IN /\ rfb' = [rfb EXCEPT !.frameBuffer = fb]
                /\ display' = res.display
                /\ copy_rect_used' = res.copy_rect_used
                /\ lastCb' = Callback("copyrect", dst, res.ops)
                /\ AfterMessage(dt, e)
    /\ UNCHANGED <<settings, rfb_client, state, retries_remaining, wait_result,
                   userVars, fault, attempts, sleeps, aborts, errSeen,
                   sawDisplay, dupDone>>
    /\ UNCHANGED <<calls, callVars>>

\* vnc.c:752 HandleRFBServerMessage: the server announced a new framebuffer
\* size and the library called MallocFrameBuffer; when the allocation fails
\* the message handler fails (vnc.c:752-757)
CbMalloc(e) ==
    /\ Alive /\ pc = "handle"
    /\ \E sz \in e.sizes, ok \in e.allocs, dt \in e.costs :
          LET m == guac_vnc_malloc_framebuffer(display, sz[1], sz[2], ok)
          IN /\ rfb' = [rfb EXCEPT !.width = sz[1], !.height = sz[2],
                                   !.frameBuffer = IF ok THEN NewFrameBuffer(sz[1], sz[2])
                                                   ELSE <<>>]
             /\ display' = m.display
             /\ lastCb' = MallocCallback(display, sz[1], sz[2], ok, m)
             /\ IF m.display # display
                THEN /\ view' = ViewsResized(m.display.w, m.display.h)
                     /\ BroadcastWritten
                ELSE UNCHANGED <<view, sdirty>>
             /\ IF m.ret
                THEN /\ AfterMessage(dt, e)
                     /\ UNCHANGED <<aborts, state, errSeen>>
                ELSE MessageFailed(dt, e)
    /\ UNCHANGED <<settings, rfb_client, copy_rect_used, retries_remaining,
                   wait_result, ustate, usettings, handlers, upc, fault, attempts,
                   sleeps, sawDisplay, dupDone>>
    /\ UNCHANGED <<calls, callVars>>

\* vnc.c:752-757: HandleRFBServerMessage fails
HandleFail(e) ==
    /\ Alive /\ pc = "handle"
    /\ \E dt \in e.costs : MessageFailed(dt, e)
    /\ UNCHANGED <<settings, rfb_client, display, copy_rect_used, rfb,
                   retries_remaining, wait_result, userVars, fault, attempts, sleeps,
                   lastCb, sawDisplay, dupDone>>
    /\ UNCHANGED <<calls, callVars>>

\* vnc.c:769-780: guac_vnc_wait_for_messages inside the frame returns r
T_InnerWait(e) ==
    /\ Alive /\ pc = "inner_wait"
    /\ \E r \in e.waits : \E dt \in WaitTimes(r, e) :
          /\ wait_result' = r
          /\ errSeen' = (errSeen \/ r < 0)
          /\ IF r > 0
             THEN /\ pc' = "handle"
                  /\ frame_age' = Elapsed(frame_age, dt, e)
                  /\ since_last' = Elapsed(since_last, dt, e)
                  /\ woke' = Elapsed(woke, dt, e)
                  /\ UNCHANGED <<processing_lag, timeout>>
             ELSE FrameLeft(dt, e)
    /\ UNCHANGED <<sessVars, retries_remaining, userVars, fault, attempts, sleeps,
                   aborts, lastCb, afterAbort, sawDisplay, dupDone>>
    /\ UNCHANGED <<calls, midStop, callVars>>

\* a frame loop that takes only results below -1 for errors
WaitFailedBelowMinusOne == wait_result < -1

\* vnc.c:791: the wait reported an error
WaitFailed == wait_result < 0

\* a frame end that flushes the sockets before the surface
FlushCallsSocketFirst ==
    <<"guac_socket_flush", "guac_common_surface_flush", "guac_client_end_frame">>

\* vnc.c:795-797: the calls that end an outer iteration, in order
FlushCalls ==
    <<"guac_common_surface_flush", "guac_client_end_frame", "guac_socket_flush">>

\* vnc.c:802-803: the calls made on leaving the loop
ExitCalls == <<"guac_client_stop", "guac_client_log">>

\* vnc.c:786-797: end of an outer iteration: abort on a failed wait, then
\* surface_flush, end_frame and the socket flush
T_FrameEnd ==
    /\ Alive /\ pc = "frame_end"
    /\ IF WaitFailed THEN guac_client_abort("UPSTREAM_ERROR")
                     ELSE UNCHANGED <<aborts, state>>
    /\ view' = [u \in Users |-> IF Attached(u) THEN ViewDrawn(view[u], display)
                                ELSE view[u]]
    /\ display' = [display EXCEPT !.dirty = {}]
    /\ sdirty' = BroadcastFlushed(sdirty)
    /\ calls' = FlushCalls
    /\ woke' = 0
    /\ pc' = "loop"
    /\ wait_result' = 0
    /\ UNCHANGED <<settings, rfb_client, copy_rect_used, rfb, retries_remaining,
                   ustate, usettings, handlers, upc, fault, attempts,
                   sleeps, lastCb, errSeen, afterAbort, sawDisplay, dupDone>>
    /\ UNCHANGED <<paceVars, midStop, callVars>>

\* vnc.c:801-804: guac_client_stop, the log of the disconnection, return
T_Stop ==
    /\ Alive /\ pc = "stop"
    /\ state' = "STOPPING"
    /\ calls' = ExitCalls
    /\ pc' = "returned"
    /\ UNCHANGED <<settings, rfb_client, display, copy_rect_used, rfb,
                   retries_remaining, wait_result, userVars, fault, histVars>>
    /\ UNCHANGED <<paceVars, woke, midStop, callVars>>

\* the gateway stops the client (a viewer's abort or an explicit stop)
ClientStop ==
    /\ Alive /\ ustate[Owner] # "none" /\ state = "RUNNING"
    /\ state' = "STOPPING"
    /\ UNCHANGED <<settings, rfb_client, display, copy_rect_used, rfb, thrVars,
                   userVars, fault, histVars>>
    /\ UNCHANGED <<paceVars, obsVars, callVars>>

(***************************************************************************)
(* Viewers: join, leave and input handlers (part_000)                      *)
(***************************************************************************)
\* a join that installs the handlers whatever the settings say
InstallAlways(s) == InputHandlers

\* part_000:115-123: the handlers a join installs
InstallHandlers(s) == IF ~s.read_only THEN InputHandlers ELSE {}

\* a guest join that replays the display without testing it
DisplayUnchecked == TRUE

\* a guest join that never replays the display
DisplaySkipped == FALSE

\* part_000:108: the display is initialised
DisplayCheck == display # NoDisplay

\* a join handler that takes every viewer for the owner
OwnerAlways(u) == TRUE

\* part_000:88: user->owner
IsOwner(u) == u = Owner

\* a join handler that goes on with the NULL settings of a failed parse
ParseNeverFails(s) == FALSE

\* part_000:78: guac_vnc_parse_args has returned NULL
ParseFailed(s) == s = NoSettings

\* a leave handler that frees the settings of every viewer
FreeAlways(u) == TRUE

\* part_000:139: the leave handler frees the settings of a viewer that is
\* not the owner
FreeOnLeave(u) == ~IsOwner(u)

\* part_000:69-99,115-125: the owner joins; its settings become the
\* session's and the session thread is started
OwnerJoin(e) ==
    /\ Alive /\ ustate[Owner] = "none"
    /\ \E s \in e.ownerArgs :
          /\ usettings' = [usettings EXCEPT ![Owner] = s]
          /\ settings' = s
          /\ handlers' = [handlers EXCEPT ![Owner] = InstallHandlers(s)]
    /\ pc' = "start"
    /\ ustate' = [ustate EXCEPT ![Owner] = "in"]
    /\ UNCHANGED <<rfb_client, display, copy_rect_used, state, rfb, retries_remaining,
                   wait_result, upc, view, sdirty, fault, histVars>>
    /\ UNCHANGED <<paceVars, obsVars, callVars>>

\* part_000:69-85,101-108: a guest joins; the handler stores its settings
\* and tests the display
GuestJoin(u, e) ==
    /\ Alive /\ ustate[u] = "none" /\ ustate[Owner] \in {"in", "left"}
    /\ \E s \in e.guestArgs :
          /\ usettings' = [usettings EXCEPT ![u] = s]
          /\ settings' = IF IsOwner(u) THEN s ELSE settings
    /\ pc' = IF IsOwner(u) THEN "start" ELSE pc
    /\ sawDisplay' = [sawDisplay EXCEPT ![u] = (display # NoDisplay)]
    /\ ustate' = [ustate EXCEPT ![u] = IF DisplayCheck THEN "dup" ELSE "flush"]
    /\ UNCHANGED <<rfb_client, display, copy_rect_used, state, rfb, retries_remaining,
                   wait_result, handlers, upc, view, sdirty, fault, attempts,
                   sleeps, aborts, lastCb, errSeen, afterAbort, dupDone>>
    /\ UNCHANGED <<paceVars, obsVars, callVars>>

\* part_000:73-82: the arguments of a join do not parse; the handler logs
\* and returns 1, and the viewer is not attached.  (Past the test the handler
\* would store the settings and, for the owner, start the thread.)
JoinRejected(u) ==
    /\ Alive /\ ustate[u] = "none"
    /\ IsOwner(u) \/ ustate[Owner] \in {"in", "left"}
    /\ LET s == NoSettings
       IN IF ParseFailed(s)
          THEN /\ ustate' = [ustate EXCEPT ![u] = "rejected"]
               /\ UNCHANGED <<usettings, settings, pc>>
          ELSE /\ ustate' = [ustate EXCEPT ![u] = "in"]
               /\ usettings' = [usettings EXCEPT ![u] = s]
               /\ settings' = IF IsOwner(u) THEN s ELSE settings
               /\ pc' = IF IsOwner(u) THEN "start" ELSE pc
    /\ UNCHANGED <<rfb_client, display, copy_rect_used, state, rfb, retries_remaining,
                   wait_result, handlers, upc, view, sdirty, fault, histVars>>
    /\ UNCHANGED <<paceVars, obsVars, callVars>>

\* part_000:84-97: the owner's arguments parse and its settings are stored,
\* but pthread_create fails: the handler logs and returns 1
OwnerJoinNoThread(e) ==
    /\ Alive /\ ustate[Owner] = "none"
    /\ \E s \in e.ownerArgs :
          /\ usettings' = [usettings EXCEPT ![Owner] = s]
          /\ settings' = s
    /\ ustate' = [ustate EXCEPT ![Owner] = "nothread"]
    /\ UNCHANGED <<rfb_client, display, copy_rect_used, state, rfb, thrVars,
                   handlers, upc, view, sdirty, fault, histVars>>
    /\ UNCHANGED <<paceVars, obsVars, callVars>>

\* part_000:109: guac_common_display_dup replays the display on the guest's
\* socket; on a NULL display it dereferences NULL
GuestDup(u) ==
    /\ Alive /\ ustate[u] = "dup"
    /\ IF display = NoDisplay
       THEN /\ fault' = [fn |-> "guac_vnc_user_join_handler", rfb_client |-> rfb_client]
            /\ UNCHANGED <<view, sdirty, dupDone, ustate>>
       ELSE /\ view' = [view EXCEPT ![u] = ImageOf(display)]
            /\ sdirty' = [sdirty EXCEPT ![u] = TRUE]
            /\ dupDone' = [dupDone EXCEPT ![u] = TRUE]
            /\ ustate' = [ustate EXCEPT ![u] = "flush"]
            /\ UNCHANGED fault
    /\ UNCHANGED <<sessVars, thrVars, usettings, handlers, upc, attempts, sleeps,
                   aborts, lastCb, errSeen, afterAbort, sawDisplay>>
    /\ UNCHANGED <<paceVars, obsVars, callVars>>

\* part_000:111-125: the guest's socket is flushed, its handlers are
\* installed and the join returns 0: the viewer is attached
GuestJoined(u) ==
    /\ Alive /\ ustate[u] = "flush"
    /\ sdirty' = [sdirty EXCEPT ![u] = FALSE]
    /\ handlers' = [handlers EXCEPT ![u] = InstallHandlers(usettings[u])]
    /\ ustate' = [ustate EXCEPT ![u] = "in"]
    /\ UNCHANGED <<sessVars, thrVars, usettings, upc, view, fault, histVars>>
    /\ UNCHANGED <<paceVars, obsVars, callVars>>

\* part_000:129-145: a viewer leaves
Leave(u) ==
    /\ Alive /\ ustate[u] = "in" /\ upc[u] = "idle"
    /\ display' = IF display # NoDisplay
                  THEN guac_common_cursor_remove_user(display, u) ELSE display
    /\ usettings' = [usettings EXCEPT ![u] = IF FreeOnLeave(u) THEN Freed ELSE @]
    /\ ustate' = [ustate EXCEPT ![u] = "left"]
    /\ handlers' = [handlers EXCEPT ![u] = {}]
    /\ view' = [view EXCEPT ![u] = NoView]
    /\ sdirty' = [sdirty EXCEPT ![u] = FALSE]
    /\ UNCHANGED <<settings, rfb_client, copy_rect_used, state, rfb, thrVars, upc,
                   fault, histVars>>
    /\ UNCHANGED <<paceVars, obsVars, callVars>>

\* part_000:38-52: a mouse event of a viewer whose mouse handler is
\* installed.  vnc_client->display->cursor is read first: with a NULL
\* display this is undefined behaviour (the process faults, or the call
\* has no effect).  The pointer event is sent when the handle is set.
MouseEvent(u) ==
    /\ Alive /\ Attached(u) /\ "mouse" \in handlers[u] /\ upc[u] = "idle"
    /\ \E crash \in (IF display = NoDisplay THEN BOOLEAN ELSE {FALSE}) :
          /\ fault' = IF crash
                      THEN [fn |-> "guac_vnc_user_mouse_handler",
                            rfb_client |-> rfb_client]
                      ELSE fault
          /\ display' = IF display # NoDisplay
                        THEN guac_common_cursor_update(display, u) ELSE display
          /\ upc' = IF ~crash /\ rfb_client
                    THEN [upc EXCEPT ![u] = "SendPointerEvent"] ELSE upc
    /\ UNCHANGED <<settings, rfb_client, copy_rect_used, state, rfb, thrVars,
                   ustate, usettings, handlers, view, sdirty, histVars>>
    /\ UNCHANGED <<paceVars, obsVars, callVars>>

\* part_000:57-67: a key event of a viewer whose key handler is installed
KeyEvent(u) ==
    /\ Alive /\ Attached(u) /\ "key" \in handlers[u] /\ upc[u] = "idle"
    /\ upc' = IF rfb_client THEN [upc EXCEPT ![u] = "SendKeyEvent"] ELSE upc
    /\ UNCHANGED <<sessVars, thrVars, ustate, usettings, handlers, view, sdirty,
                   fault, histVars>>
    /\ UNCHANGED <<paceVars, obsVars, callVars>>

\* part_000:49,64: SendPointerEvent / SendKeyEvent returns
InputSent(u) ==
    /\ Alive /\ upc[u] # "idle"
    /\ upc' = [upc EXCEPT ![u] = "idle"]
    /\ UNCHANGED <<sessVars, thrVars, ustate, usettings, handlers, view, sdirty,
                   fault, attempts, sleeps, aborts, lastCb, errSeen, afterAbort,
                   sawDisplay, dupDone>>
    /\ UNCHANGED <<paceVars, obsVars, callVars>>

(***************************************************************************)
(* The specification                                                       *)
(***************************************************************************)
\* the session and the viewers after construction
InitState ==
    /\ settings = NoSettings
    /\ rfb_client = FALSE
    /\ display = NoDisplay
    /\ copy_rect_used = FALSE
    /\ state = "RUNNING"
    /\ rfb = NoRfb
    /\ pc = "none"
    /\ retries_remaining = 0
    /\ wait_result = 0
    /\ ustate = [u \in Users |-> "none"]
    /\ usettings = [u \in Users |-> NoSettings]
    /\ handlers = [u \in Users |-> {}]
    /\ upc = [u \in Users |-> "idle"]
    /\ view = [u \in Users |-> NoView]
    /\ sdirty = [u \in Users |-> FALSE]
    /\ fault = NoFault
    /\ attempts = 0
    /\ sleeps = 0
    /\ aborts = <<>>
    /\ lastCb = NoCb
    /\ errSeen = FALSE
    /\ afterAbort = FALSE
    /\ sawDisplay = [u \in Users |-> FALSE]
    /\ dupDone = [u \in Users |-> FALSE]
    /\ processing_lag = 0
    /\ timeout = 0
    /\ frame_age = 0
    /\ since_last = 0
    /\ woke = 0
    /\ calls = <<>>
    /\ midStop = FALSE

Init ==
    /\ InitState
    /\ arg = NoArg
    /\ result = NoRes

(***************************************************************************)
(* What the environment may offer.  Two scenarios are explored:            *)
(*  - Lifecycle: any retry setting, failing connects, failing waits and    *)
(*    message handlers, stops, viewers with and without input rights; the  *)
(*    framebuffer is a single pixel of a single colour.                    *)
(*  - Shown: a session of read-only viewers, connected at the first        *)
(*    attempt, with every framebuffer size and pixel value; it ends only   *)
(*    when the library fails to allocate a framebuffer.                    *)
(***************************************************************************)
Lifecycle ==
    [ownerArgs |-> [read_only : BOOLEAN, swap_red_blue : {FALSE},
                    color_depth : {32}, retries : 0..MaxRetries],
     guestArgs |-> [read_only : BOOLEAN, swap_red_blue : {FALSE},
                    color_depth : {32}, retries : {0}],
     connects  |-> BOOLEAN,
     sizes     |-> {<<1, 1>>},
     raws      |-> {<<0, 0>>},
     waits     |-> {-1, 0, 1},
     allocs    |-> BOOLEAN,
     scratch   |-> BOOLEAN,
     lags      |-> {0},
     costs     |-> {0},
     delays    |-> {0},
     horizon   |-> 0]

Shown ==
    [ownerArgs |-> [read_only : {TRUE}, swap_red_blue : {TRUE},
                    color_depth : ColorDepths, retries : {0}],
     guestArgs |-> [read_only : {TRUE}, swap_red_blue : {FALSE},
                    color_depth : {32}, retries : {0}],
     connects  |-> {TRUE},
     sizes     |-> FBSizes,
     raws      |-> RawVals,
     waits     |-> {0, 1},
     allocs    |-> BOOLEAN,
     scratch   |-> {TRUE},
     lags      |-> {0},
     costs     |-> {0},
     delays    |-> {0},
     horizon   |-> 0]

Next ==
    \/ OwnerJoin(Lifecycle)
    \/ \E u \in Guests : GuestJoin(u, Lifecycle)
    \/ \E u \in Guests : GuestDup(u)
    \/ \E u \in Guests : GuestJoined(u)
    \/ \E u \in Users : Leave(u)
    \/ \E u \in Users : MouseEvent(u)
    \/ \E u \in Users : KeyEvent(u)
    \/ \E u \in Users : InputSent(u)
    \/ ClientStop
    \/ T_Connect(Lifecycle)
    \/ T_Retry(Lifecycle)
    \/ T_ConnectFailed
    \/ T_SetHandle
    \/ T_AllocDisplay
    \/ T_Loop
    \/ T_WaitOuter(Lifecycle)
    \/ CbUpdate(Lifecycle)
    \/ CbCopyRect(Lifecycle)
    \/ CbMalloc(Lifecycle)
    \/ HandleFail(Lifecycle)
    \/ T_InnerWait(Lifecycle)
    \/ T_FrameEnd
    \/ T_Stop

Spec == Init /\ [][Next]_vars

NextShown ==
    \/ OwnerJoin(Shown)
    \/ \E u \in Guests : GuestJoin(u, Shown)
    \/ \E u \in Guests : GuestDup(u)
    \/ \E u \in Guests : GuestJoined(u)
    \/ T_Connect(Shown)
    \/ T_SetHandle
    \/ T_AllocDisplay
    \/ T_Loop
    \/ T_WaitOuter(Shown)
    \/ CbUpdate(Shown)
    \/ CbCopyRect(Shown)
    \/ CbMalloc(Shown)
    \/ T_InnerWait(Shown)
    \/ T_FrameEnd
    \/ T_Stop

SpecShown == Init /\ [][NextShown]_vars

(***************************************************************************)
(* Frame pacing.  Paced: a read-only owner alone on a one-pixel session    *)
(* whose clock runs: messages take time to handle, data arrives after a    *)
(* delay or not at all, viewers report a processing lag, and the client    *)
(* may be stopped.  Only waits and message handling take time.  Live is    *)
(* Paced with every handled message taking time, under a scheduler that    *)
(* keeps running the session thread.                                       *)
(***************************************************************************)
\* elapsed times are told apart up to just beyond the longest idle interval
PacedHorizon == GUAC_VNC_FRAME_START_TIMEOUT \div 1000 + GUAC_VNC_FRAME_DURATION + 1

Paced ==
    [ownerArgs |-> [read_only : {TRUE}, swap_red_blue : {FALSE},
                    color_depth : {32}, retries : {0}],
     guestArgs |-> {},
     connects  |-> {TRUE},
     sizes     |-> {<<1, 1>>},
     raws      |-> {<<0, 0>>},
     waits     |-> {-1, 0, 1},
     allocs    |-> {TRUE},
     scratch   |-> {TRUE},
     lags      |-> {0, 500},
     costs     |-> {0, 20, 100},
     delays    |-> {0, 100},
     horizon   |-> PacedHorizon]

Live == [Paced EXCEPT !.costs = {20, 100}]

\* the steps of the session thread once it runs
SessionThread(e) ==
    \/ T_Connect(e)
    \/ T_SetHandle
    \/ T_AllocDisplay
    \/ T_Loop
    \/ T_WaitOuter(e)
    \/ CbUpdate(e)
    \/ T_InnerWait(e)
    \/ T_FrameEnd
    \/ T_Stop

NextPaced ==
    \/ OwnerJoin(Paced)
    \/ ClientStop
    \/ SessionThread(Paced)

SpecPaced == Init /\ [][NextPaced]_vars

NextLive ==
    \/ OwnerJoin(Live)
    \/ ClientStop
    \/ SessionThread(Live)

SpecLive == Init /\ [][NextLive]_vars /\ WF_vars(SessionThread(Live))

(***************************************************************************)
(* Viewers with settings of their own: the owner and a guest whose         *)
(* arguments may differ in every setting, joins that are rejected, leaves. *)
(***************************************************************************)
Joining ==
    [ownerArgs |-> [read_only : {TRUE}, swap_red_blue : BOOLEAN,
                    color_depth : {32}, retries : {1}],
     guestArgs |-> [read_only : BOOLEAN, swap_red_blue : BOOLEAN,
                    color_depth : {8, 32}, retries : {0, 1}],
     connects  |-> BOOLEAN,
     sizes     |-> {<<1, 1>>},
     raws      |-> {<<0, 255>>},
     waits     |-> {0, 1},
     allocs    |-> {TRUE},
     scratch   |-> {TRUE},
     lags      |-> {0},
     costs     |-> {0},
     delays    |-> {0},
     horizon   |-> 0]

NextJoin ==
    \/ OwnerJoin(Joining)
    \/ OwnerJoinNoThread(Joining)
    \/ \E u \in Users : JoinRejected(u)
    \/ \E u \in Guests : GuestJoin(u, Joining)
    \/ \E u \in Guests : GuestDup(u)
    \/ \E u \in Guests : GuestJoined(u)
    \/ \E u \in Users : Leave(u)
    \/ \E u \in Users : MouseEvent(u)
    \/ \E u \in Users : InputSent(u)
    \/ ClientStop
    \/ T_Connect(Joining)
    \/ T_Retry(Joining)
    \/ T_ConnectFailed
    \/ T_SetHandle
    \/ T_AllocDisplay
    \/ T_Loop
    \/ T_WaitOuter(Joining)
    \/ CbUpdate(Joining)
    \/ T_InnerWait(Joining)
    \/ T_FrameEnd
    \/ T_Stop

SpecJoin == Init /\ [][NextJoin]_vars

(***************************************************************************)
(* Single calls of the pixel translation of guac_vnc_update and of         *)
(* guac_vnc_set_clipboard_encoding, on arguments drawn from bounded sets.  *)
(***************************************************************************)
ByteVals   == {0, 255}
CallDepths == {8, 16, 32}
CallWidths == {1, 2}
EncodingNames == {NULL, "ISO8859-1", "UTF-8", "UTF-16", "CP1252", "", "utf-8", "ISO8859-15"}

UpdateArgs ==
    UNION {UNION {{[fn |-> "guac_vnc_update",
                    format |-> guac_vnc_set_pixel_format(d),
                    swap_red_blue |-> sw,
                    x |-> 0, y |-> 0, w |-> w, h |-> 1,
                    frameBuffer |-> fb] :
                     sw \in BOOLEAN,
                     fb \in [1 .. (guac_vnc_set_pixel_format(d).bitsPerPixel \div 8) * w -> ByteVals]} :
                  w \in CallWidths} :
           d \in CallDepths}

MaskVals    == {0, 1, 255}
CursorSizes == {<<1, 1>>, <<2, 1>>, <<2, 2>>}

CursorArgs ==
    UNION {{[fn |-> "guac_vnc_cursor",
             format |-> guac_vnc_set_pixel_format(32),
             swap_red_blue |-> sw,
             x |-> 0, y |-> 0, w |-> sz[1], h |-> sz[2], bpp |-> 4,
             rcSource |-> [i \in 1 .. 4 * sz[1] * sz[2] |-> b],
             rcMask |-> m] :
              sw \in BOOLEAN, b \in ByteVals, m \in [1 .. sz[1] * sz[2] -> MaskVals]} :
           sz \in CursorSizes}

EncodingArgs == {[fn |-> "guac_vnc_set_clipboard_encoding", name |-> n] : n \in EncodingNames}

\* the conversion loop of guac_vnc_update over one row (vnc.c:204-253): the
\* words written to the scratch buffer, and for every pixel the three
\* channel expressions as evaluated
TranslateRect(a) ==
    LET bpp  == a.format.bitsPerPixel \div 8
        v(i) == ReadPixel(a.frameBuffer, bpp, a.x + i - 1)
    IN [buffer |-> [i \in 1 .. a.w |-> TranslatePixel(v(i), a.format, a.swap_red_blue)],
        exprs  |-> [i \in 1 .. a.w |->
                      <<ChannelQuotient(v(i), a.format.redShift,   a.format.redMax),
                        ChannelQuotient(v(i), a.format.greenShift, a.format.greenMax),
                        ChannelQuotient(v(i), a.format.blueShift,  a.format.blueMax)>>]]

\* the conversion loop of guac_vnc_cursor (vnc.c:357-416): the ARGB words
\* written, row after row, and the mask bytes read
TranslateCursor(a) ==
    LET px(dx, dy) == ReadPixel(a.rcSource, a.bpp, dy * a.w + dx)
    IN [buffer |-> [i \in 1 .. a.w * a.h |->
                      LET dx == (i - 1) % a.w
                          dy == (i - 1) \div a.w
                      IN ArgbWord(MaskAlpha(a.rcMask, a.w, dx, dy),
                                  TranslatePixel(px(dx, dy), a.format, a.swap_red_blue))],
        maskRead |-> MaskRead(a.w, a.h)]

restVars == <<sessVars, thrVars, userVars, fault, histVars, paceVars, obsVars>>

CallUpdate ==
    /\ arg.fn = "guac_vnc_update"
    /\ result = NoRes
    /\ result' = TranslateRect(arg)
    /\ UNCHANGED <<arg, restVars>>

CallSetClipboardEncoding ==
    /\ arg.fn = "guac_vnc_set_clipboard_encoding"
    /\ result = NoRes
    /\ result' = guac_vnc_set_clipboard_encoding(arg.name)
    /\ UNCHANGED <<arg, restVars>>

CallCursor ==
    /\ arg.fn = "guac_vnc_cursor"
    /\ result = NoRes
    /\ result' = TranslateCursor(arg)
    /\ UNCHANGED <<arg, restVars>>

InitCalls ==
    /\ InitState
    /\ arg \in UpdateArgs \cup CursorArgs \cup EncodingArgs
    /\ result = NoRes

NextCalls ==
    \/ CallUpdate
    \/ CallCursor
    \/ CallSetClipboardEncoding

SpecCalls == InitCalls /\ [][NextCalls]_vars

(***************************************************************************)
(* Properties                                                              *)
(***************************************************************************)
UpstreamErrors == Cardinality({i \in DOMAIN aborts : aborts[i] = "UPSTREAM_ERROR"})
NotFounds      == Cardinality({i \in DOMAIN aborts : aborts[i] = "UPSTREAM_NOT_FOUND"})

\* a viewer thread is inside a call of the RFB library
ViewerInLibrary(u) == upc[u] # "idle"
\* the session thread is inside WaitForMessage
SessionInLibrary == Alive /\ pc \in {"wait", "inner_wait"}

\* C1: once the session loop has flushed the surface and the sockets at the
\* end of a frame, the image described to every attached viewer is the
\* upstream framebuffer translated to RGB.
C1_FlushedViewsShowFrameBuffer ==
    [][(pc = "frame_end" /\ pc' = "loop") =>
          \A u \in Users : Attached(u)' => ShowsFrameBuffer(view[u])']_vars

\* C2: GotCopyRect issues exactly one draw, the surface_copy, and sets
\* copy_rect_used; the GotFrameBufferUpdate that follows it immediately (in
\* particular one covering the same region) issues no surface_draw and leaves
\* copy_rect_used clear.
C2_CopyRectDrawnOnce ==
    /\ lastCb.kind = "copyrect" =>
          lastCb.ops = <<"surface_copy">> /\ copy_rect_used
    /\ lastCb.kind = "update" =>
          /\ ~copy_rect_used
          /\ (lastCb.afterCopy \/ lastCb.paired) => lastCb.ops = <<>>
          /\ lastCb.ops \in {<<>>, <<"surface_draw">>}

\* an update for the region of the CopyRect just before it was suppressed
C2_Witness ==
    lastCb.kind = "update" /\ lastCb.paired /\ lastCb.ops = <<>> /\ ~copy_rect_used

\* C3: while the upstream handle is NULL no viewer is sending an RFB event,
\* and no mouse or key handler called with a NULL handle has done anything
\* but return (here: faulted on the NULL display).
C3_InputDroppedWhileConnecting ==
    /\ ~rfb_client => \A u \in Users : ~ViewerInLibrary(u)
    /\ ~(fault.fn = "guac_vnc_user_mouse_handler" /\ ~fault.rfb_client)

\* C4: at most one call into the RFB library is in progress on the handle:
\* no viewer is inside SendPointerEvent or SendKeyEvent while the session
\* thread is inside WaitForMessage or while another viewer is inside one.
C4_LibraryCallsSerialised ==
    \A u \in Users : ViewerInLibrary(u) =>
        /\ ~SessionInLibrary
        /\ \A v \in Users \ {u} : ~ViewerInLibrary(v)

\* C5: with retries N the thread makes at most N+1 attempts and sleeps once
\* before each retry; when all fail it has made exactly N+1 attempts, aborted
\* with UPSTREAM_NOT_FOUND exactly once and returned without handle, display
\* or frame loop; once an attempt succeeded no further attempt is made and
\* UPSTREAM_NOT_FOUND is never raised.
C5_State ==
    settings # NoSettings =>
       /\ attempts <= settings.retries + 1
       /\ sleeps = (IF attempts = 0 THEN 0 ELSE attempts - 1)
       /\ NotFounds <= 1
       /\ (rfb = NoRfb /\ pc = "returned") =>
             /\ attempts = settings.retries + 1
             /\ sleeps = settings.retries
             /\ aborts = <<"UPSTREAM_NOT_FOUND">>
             /\ ~rfb_client /\ display = NoDisplay /\ lastCb = NoCb
       /\ (rfb = NoRfb) => pc \in {"start", "retry", "returned"}
       /\ (rfb # NoRfb) => NotFounds = 0

C5_RetriesThenNotFound ==
    /\ []C5_State
    /\ [][rfb # NoRfb => attempts' = attempts /\ sleeps' = sleeps]_vars

\* every attempt failed with one retry allowed
C5_Witness ==
    /\ settings # NoSettings /\ settings.retries = MaxRetries
    /\ pc = "returned" /\ rfb = NoRfb
    /\ attempts = MaxRetries + 1 /\ aborts = <<"UPSTREAM_NOT_FOUND">>

\* C6: an attached viewer whose settings are read-only has no input handler
\* and is never inside an RFB input call; an attached viewer whose settings
\* are not read-only has the mouse, key and clipboard handlers.
C6_ReadOnlyHasNoHandlers ==
    \A u \in Users : Attached(u) =>
        /\ handlers[u] = (IF usettings[u].read_only THEN {} ELSE InputHandlers)
        /\ usettings[u].read_only => ~ViewerInLibrary(u)

\* a read-only guest next to an owner who is sending input
C6_Witness ==
    \E u \in Guests :
        /\ Attached(u) /\ usettings[u].read_only /\ handlers[u] = {}
        /\ rfb_client /\ ViewerInLibrary(Owner)

\* C7: a guest join reaches dup_to exactly when the display was initialised
\* when the handler tested it, dup_to never meets a NULL display, and after
\* either branch the guest's socket is flushed and the guest is attached.
C7_GuestJoinChecksDisplay ==
    [][\A u \in Guests :
          /\ (ustate[u] = "none" /\ ustate'[u] # "none") =>
                ustate'[u] = (IF display # NoDisplay THEN "dup" ELSE "flush")
          /\ ustate'[u] = "dup" => display' # NoDisplay
          /\ (ustate[u] = "dup" /\ ustate'[u] # "dup") =>
                ustate'[u] = "flush" /\ dupDone'[u]
          /\ fault'.fn # "guac_vnc_user_join_handler"
          /\ (ustate[u] = "flush" /\ ustate'[u] # "flush") =>
                ustate'[u] = "in" /\ ~sdirty'[u] /\ (dupDone[u] <=> sawDisplay[u])
      ]_vars

\* a guest that joined between handle assignment and display allocation is
\* attached without a replay
C7_Witness ==
    \E u \in Guests :
        /\ Attached(u) /\ ~sawDisplay[u] /\ ~dupDone[u]
        /\ rfb_client /\ pc = "alloc" /\ display = NoDisplay

\* C8: nothing reaches the socket of a guest whose join found the display
\* before the replay of the display's current content, which is the first
\* thing written to it; such a guest is never attached without the replay.
C8_State ==
    \A u \in Guests :
        /\ ustate[u] \in {"none", "dup"} => view[u] = NoView /\ ~sdirty[u]
        /\ (sawDisplay[u] /\ ustate[u] \in {"flush", "in"}) => dupDone[u]

C8_ReplayBeforeLiveUpdates ==
    /\ []C8_State
    /\ [][\A u \in Guests :
            /\ (ustate[u] = "dup" /\ ustate'[u] # "dup") =>
                  view[u] = NoView /\ view'[u] = ImageOf(display)
            /\ (sawDisplay[u] /\ view[u] = NoView /\ view'[u] # NoView) =>
                  ustate[u] = "dup"
         ]_vars

\* a guest was replayed a display that is not blank while the session thread
\* is inside a frame
C8_Witness ==
    \E u \in Guests :
        /\ ustate[u] = "flush" /\ dupDone[u] /\ view[u] = ImageOf(display)
        /\ \E c \in DOMAIN display.px : display.px[c] # 0
        /\ pc = "inner_wait"

\* C9 as stated: every MallocFrameBuffer call, the one of the handshake
\* included, issued surface_resize before the wrapped allocator, returned the
\* allocator's result, and the surface has the framebuffer's dimensions.
C9_ResizeOnEveryMalloc ==
    /\ lastCb.kind = "malloc" =>
          /\ lastCb.ops = <<"surface_resize", "rfb_MallocFrameBuffer">>
          /\ lastCb.ret = lastCb.origRet
    /\ display # NoDisplay => display.w = rfb.width /\ display.h = rfb.height

\* C9: a MallocFrameBuffer call made while the display exists issues
\* surface_resize(W, H) before the wrapped allocator; one made during the
\* handshake, before the display exists, calls only the allocator; both
\* return the allocator's result, and whenever the display exists (so at
\* every frame flush) the surface has the framebuffer's dimensions.
C9_ResizeWhenDisplayExists ==
    /\ lastCb.kind = "malloc" =>
          /\ lastCb.ops = (IF lastCb.hadDisplay
                           THEN <<"surface_resize", "rfb_MallocFrameBuffer">>
                           ELSE <<"rfb_MallocFrameBuffer">>)
          /\ lastCb.ret = lastCb.origRet
          /\ lastCb.hadDisplay => display # NoDisplay
    /\ display # NoDisplay => display.w = rfb.width /\ display.h = rfb.height

\* the framebuffer was reallocated to two pixels in mid-session and the frame
\* was flushed with the surface at that size
C9_Witness ==
    /\ lastCb.kind = "malloc" /\ lastCb.hadDisplay /\ lastCb.ret
    /\ lastCb.rect.w = 2 /\ display.w = 2 /\ pc = "loop"
    /\ view[Owner] # NoView /\ view[Owner].w = 2

\* C10: client_abort(UPSTREAM_ERROR) is called at most once; it has been
\* called once the iteration in which the message handler or a wait failed
\* is over, and only after such a failure; no message is handled and no wait
\* is started after it.
C10_AbortOnceOnUpstreamError ==
    /\ UpstreamErrors <= 1
    /\ ~afterAbort
    /\ (errSeen /\ pc \in {"loop", "stop", "returned"}) => UpstreamErrors = 1
    /\ UpstreamErrors = 1 => errSeen /\ state = "STOPPING"
    /\ UpstreamErrors = 1 => pc \notin {"wait", "handle", "inner_wait"}

\* the message handler or a wait failed; the thread aborted once and returned
C10_Witness ==
    /\ errSeen /\ pc = "returned" /\ state = "STOPPING"
    /\ aborts = <<"UPSTREAM_ERROR">>

\* the session thread is in the frame loop
InLoop == pc \in {"loop", "wait", "handle", "inner_wait", "frame_end"}
\* the session thread is inside an outer iteration
InIteration == pc \in {"wait", "handle", "inner_wait"}

\* C11: once the client is no longer RUNNING while the session thread is in
\* the frame loop, the thread eventually returns; when it has returned from
\* the loop it has called guac_client_stop and logged the disconnection, once
\* each, and the client is stopped.
C11_ThreadLeavesLoop ==
    /\ [](pc = "returned" /\ rfb # NoRfb => calls = ExitCalls /\ state # "RUNNING")
    /\ ((state # "RUNNING" /\ InLoop) ~> pc = "returned")

\* the client was stopped in mid-frame and the thread has left the loop
C11_Witness ==
    /\ pc = "returned" /\ calls = ExitCalls /\ midStop
    /\ aborts = <<>> /\ state = "STOPPING"

\* C12: when the wait for the start of a frame times out, the time since the
\* previous flush is between FRAME_START_TIMEOUT and FRAME_START_TIMEOUT +
\* FRAME_DURATION milliseconds, the iteration goes on to its flush and no
\* RFB message is handled in it.
C12_IdleWakeInterval ==
    [][(pc = "wait" /\ pc' # "wait" /\ wait_result' = 0) =>
          /\ woke' >= GUAC_VNC_FRAME_START_TIMEOUT \div 1000
          /\ woke' <= GUAC_VNC_FRAME_START_TIMEOUT \div 1000 + GUAC_VNC_FRAME_DURATION
          /\ pc' = "frame_end" /\ lastCb' = lastCb
      ]_vars

\* the session has been idle since the handshake and the first wait timed out
C12_Witness ==
    /\ pc = "frame_end" /\ wait_result = 0 /\ lastCb.kind = "malloc"
    /\ woke = GUAC_VNC_FRAME_START_TIMEOUT \div 1000

\* C13: after a message handled in the inner loop, with dt the time it took,
\* required_wait = processing_lag - time_elapsed and frame_remaining =
\* FRAME_DURATION - (frame_end - frame_start): if required_wait >
\* FRAME_TIMEOUT the loop waits with a timeout of required_wait milliseconds,
\* otherwise if frame_remaining > 0 it waits with FRAME_TIMEOUT, otherwise the
\* frame ends; processing_lag does not change during the frame, and a wait
\* that times out has lasted exactly its timeout.
C13_FrameStretch ==
    [][/\ (pc = "handle" /\ pc' # "handle" /\ aborts' = aborts /\ woke' < PacedHorizon) =>
            LET dt == woke' - woke
                required_wait == processing_lag - Elapsed(since_last, dt, Paced)
                frame_remaining == GUAC_VNC_FRAME_DURATION - (frame_age + dt)
            IN IF required_wait > GUAC_VNC_FRAME_TIMEOUT
               THEN pc' = "inner_wait" /\ timeout' = required_wait * 1000
               ELSE IF frame_remaining > 0
                    THEN pc' = "inner_wait" /\ timeout' = GUAC_VNC_FRAME_TIMEOUT * 1000
                    ELSE pc' = "frame_end"
       /\ (pc \in {"handle", "inner_wait"} /\ pc' \in {"handle", "inner_wait"}) =>
            processing_lag' = processing_lag
       /\ (pc = "inner_wait" /\ pc' # "inner_wait" /\ wait_result' = 0
             /\ woke' < PacedHorizon) =>
            woke' - woke = timeout \div 1000
      ]_vars

\* processing_lag 500 and time_elapsed 100: the loop waits with 400 ms
C13_Witness ==
    /\ pc = "inner_wait" /\ processing_lag = 500 /\ since_last = 100
    /\ timeout = 400 * 1000

\* C17: no callback has written through the NULL pointer of a scratch
\* buffer whose allocation failed.
C17_ScratchFailureAborts == fault.fn # "guac_vnc_update"

\* C18: the thread leaves the loop only from the loop condition; once the
\* client is not RUNNING no new outer iteration starts; inside a frame the
\* loop goes on whatever the client state is: a wait that reports data is
\* followed by the handling of a message.
C18_StateCheckedAtBoundary ==
    [][/\ (pc # "stop" /\ pc' = "stop") => (pc = "loop" /\ state # "RUNNING")
       /\ (pc = "loop" /\ state # "RUNNING") => pc' \in {"loop", "stop"}
       /\ (pc = "loop" /\ state = "RUNNING") => pc' \in {"loop", "wait"}
       /\ (pc \in {"wait", "inner_wait"} /\ pc' # pc /\ wait_result' > 0) => pc' = "handle"
       /\ (pc = "handle" /\ pc' # pc) => pc' \in {"inner_wait", "frame_end"}
      ]_vars

\* a message was handled after the client was stopped and the inner loop
\* waits for more
C18_Witness ==
    /\ midStop /\ state = "STOPPING" /\ aborts = <<>>
    /\ pc = "inner_wait"

\* C19: a flush that ends an iteration in which the client left RUNNING
\* (an abort or a stop) finds no dirty region to emit.
C19_UnfinishedFrameDropped ==
    [][(pc = "frame_end" /\ pc' = "loop" /\ state' # "RUNNING") =>
          display.dirty = {}]_vars

\* C20: every outer iteration passes through its end, where the thread calls
\* guac_common_surface_flush, guac_client_end_frame and guac_socket_flush,
\* once each in this order; none of them has been called in the iteration
\* while messages are still waited for or handled.
C20_Flushes == <<"guac_common_surface_flush", "guac_client_end_frame", "guac_socket_flush">>

C20_State ==
    /\ calls \in {<<>>, C20_Flushes, ExitCalls}
    /\ InIteration => calls = <<>>
    /\ pc = "frame_end" => calls = <<>>

C20_FlushEndsIteration ==
    /\ []C20_State
    /\ [][/\ (pc = "frame_end" /\ pc' # "frame_end") =>
                (pc' = "loop" /\ calls' = C20_Flushes
                   /\ display'.dirty = {} /\ \A u \in Users : Attached(u) => ~sdirty'[u])
          /\ (InIteration /\ ~InIteration' /\ Alive') => pc' = "frame_end"
          /\ (pc = "loop" /\ pc' = "stop") => calls # ExitCalls
         ]_vars

\* an iteration in which a library call failed has ended with the flushes
C20_Witness ==
    /\ pc = "loop" /\ calls = C20_Flushes /\ errSeen
    /\ aborts = <<"UPSTREAM_ERROR">>

\* the call of guac_vnc_update has returned
Updated == arg.fn = "guac_vnc_update" /\ result # NoRes
\* the call of guac_vnc_set_clipboard_encoding has returned
EncodingSet == arg.fn = "guac_vnc_set_clipboard_encoding" /\ result # NoRes

\* C14: every channel expression (raw >> shift) * 256 / (max + 1) evaluated
\* for a pixel of 1, 2 or 4 bytes has a value in [0, 256): its 32-bit
\* product has not overflowed and nothing above its low 8 bits is lost when
\* it is stored in the 8-bit channel.
C14_ChannelInRange ==
    Updated =>
        \A i \in 1 .. arg.w : \A c \in 1 .. 3 :
            /\ ~result.exprs[i][c].overflow
            /\ result.exprs[i][c].high = 0

\* bytes of the framebuffer row of a 32-bit update
FrameBufferIs(bytes) == arg.frameBuffer = bytes

\* C15 (as stated): for a 32-bit little-endian format with shifts 16/8/0
\* and maxima 255 and swap-red-blue off, every word drawn is
\* (red << 16) | (green << 8) | blue of the pixel's bytes, and the update of
\* two pixels with bytes 00 00 FF FF 00 FF 00 FF draws 0x0000FF, 0x00FF00.
C15_General ==
    (Updated /\ arg.format.bitsPerPixel = 32 /\ ~arg.swap_red_blue) =>
        \A i \in 1 .. arg.w :
            LET blue  == arg.frameBuffer[4 * (i - 1) + 1]
                green == arg.frameBuffer[4 * (i - 1) + 2]
                red   == arg.frameBuffer[4 * (i - 1) + 3]
            IN result.buffer[i] = red * 65536 + green * 256 + blue

C15_ExampleCase ==
    /\ Updated /\ arg.format.bitsPerPixel = 32 /\ ~arg.swap_red_blue
    /\ arg.w = 2
    /\ FrameBufferIs(<<0, 0, 255, 255, 0, 255, 0, 255>>)

C15_DrawsRgbWords ==
    /\ C15_General
    /\ C15_ExampleCase => result.buffer = <<255, 65280>>

\* C15 (amended): the same rule, and the update of two pixels with bytes
\* 00 00 FF FF 00 FF 00 FF draws 0xFF0000, 0x00FF00.
C15_DrawsRgbWordsOfBytes ==
    /\ C15_General
    /\ C15_ExampleCase => result.buffer = <<255 * 65536, 65280>>

C15_Witness == C15_ExampleCase /\ result.buffer[1] = 16711680

\* the codec pairs of one encoding
CodecPairs == {ISO8859_1, UTF8, UTF16, CP1252}
SelectedCodec == [clipboard_reader |-> result.clipboard_reader,
                  clipboard_writer |-> result.clipboard_writer]
Recognised == {"ISO8859-1", "UTF-8", "UTF-16", "CP1252"}

C16_Common ==
    /\ arg.name = "ISO8859-1" => (result.ret = 0 /\ SelectedCodec = ISO8859_1)
    /\ arg.name = "UTF-8"  => (result.ret # 0 /\ SelectedCodec = UTF8)
    /\ arg.name = "UTF-16" => (result.ret # 0 /\ SelectedCodec = UTF16)
    /\ arg.name = "CP1252" => (result.ret # 0 /\ SelectedCodec = CP1252)
    /\ arg.name \notin Recognised => (result.ret = 0 /\ SelectedCodec = ISO8859_1)
    /\ SelectedCodec \in CodecPairs

\* C16 (as stated): ISO8859-1 returns 0; UTF-8, UTF-16 and CP1252 return
\* non-zero; a NULL or unrecognised name selects ISO8859-1, logs a warning
\* and returns 0; reader and writer are of the same selected encoding.
C16_EncodingSelected ==
    EncodingSet =>
        /\ C16_Common
        /\ arg.name \notin Recognised => result.log = <<"GUAC_LOG_WARNING">>
        /\ arg.name \in Recognised => result.log = <<>>

\* C16 (amended): as above, but the warning is logged for an unrecognised
\* name only; a NULL name selects ISO8859-1 and returns 0 without a log.
C16_EncodingSelectedNullSilent ==
    EncodingSet =>
        /\ C16_Common
        /\ arg.name \notin Recognised \cup {NULL} => result.log = <<"GUAC_LOG_WARNING">>
        /\ arg.name \in Recognised \cup {NULL} => result.log = <<>>

C16_Witness ==
    /\ EncodingSet /\ arg.name = NULL
    /\ SelectedCodec = ISO8859_1 /\ result.ret = 0 /\ result.log = <<>>

\* C21: with since_last the time since last_frame_end and dt the time a step
\* takes: an iteration whose wait for the start of a frame timed out or
\* failed leaves last_frame_end where it was; an iteration in which data was
\* readable ends with last_frame_end at its frame_start (the time since it is
\* the age of the frame, not zero); the flush and the loop condition leave it
\* unchanged; on entry of the loop it is the current time; and it never
\* moves backwards.
C21_LastFrameEndIsFrameStart ==
    [][/\ (pc = "wait" /\ pc' = "frame_end" /\ woke' < PacedHorizon) =>
             /\ wait_result' <= 0
             /\ since_last' = Elapsed(since_last, woke' - woke, Paced)
       /\ (pc \in {"handle", "inner_wait"} /\ pc' = "frame_end" /\ woke' < PacedHorizon) =>
             since_last' = frame_age + (woke' - woke)
       /\ (pc \in {"frame_end", "loop"} /\ InLoop') => since_last' = since_last
       /\ (pc = "alloc" /\ pc' = "loop") => since_last' = 0
       /\ (InIteration /\ woke' < PacedHorizon) =>
             since_last' <= Elapsed(since_last, woke' - woke, Paced)
       /\ InIteration => frame_age <= since_last
      ]_vars

\* a frame of one message that took 100 ms has ended: last_frame_end is its
\* start, 100 ms ago
C21_Witness ==
    /\ pc = "frame_end" /\ wait_result > 0 /\ lastCb.kind = "update"
    /\ since_last = 100 /\ woke = 100

\* the call of guac_vnc_cursor has returned
CursorSet == arg.fn = "guac_vnc_cursor" /\ result # NoRes
\* the alpha byte of the word written for cursor pixel (dx, dy)
AlphaAt(dx, dy) == result.buffer[dy * arg.w + dx + 1][1] \div 256

ThreadSpawned == pc # "none"
\* viewer u takes the step that ends its stay
Leaves(u) == ustate[u] = "in" /\ ustate'[u] = "left"

\* C23: the session thread is spawned only by the join of the owner whose
\* arguments parsed, in the step that stores its settings at session level,
\* and it is spawned once; a step of a guest's join leaves the thread and the
\* session's settings alone; a join whose arguments do not parse is rejected
\* and changes neither the session, the thread, the handlers nor any
\* viewer's settings.
C23_OneThreadSpawnedByOwner ==
    /\ [](ThreadSpawned => (ustate[Owner] \in {"in", "left"} /\ settings # NoSettings))
    /\ [][/\ (pc' = "start" /\ pc # "start") =>
                /\ pc = "none"
                /\ ustate[Owner] = "none" /\ ustate'[Owner] = "in"
                /\ settings' = usettings'[Owner] /\ settings' # NoSettings
                /\ \A g \in Guests : ustate'[g] = ustate[g]
          /\ (ustate[Owner] = "none" /\ ustate'[Owner] = "in") => pc' = "start"
          /\ \A g \in Guests : ustate'[g] # ustate[g] => UNCHANGED <<pc, settings>>
          /\ \A u \in Users : (ustate'[u] = "rejected" /\ ustate[u] # "rejected") =>
                UNCHANGED <<sessVars, thrVars, handlers, usettings>>
         ]_vars

\* the owner's thread runs and the join of the guest was rejected
C23_Witness ==
    /\ pc = "wait" /\ ustate[Owner] = "in" /\ settings = usettings[Owner]
    /\ ustate[1] = "rejected" /\ handlers[1] = {} /\ usettings[1] = NoSettings

\* C24: a leave removes the viewer from the shared cursor when the display
\* exists (and touches no display when there is none); the settings of a
\* guest are freed by its own leave, which finds them not freed yet; the
\* owner's settings are never freed, and while the session thread exists the
\* settings it reads are the owner's, allocated and not freed.
C24_LeaveFreesGuestSettingsOnly ==
    /\ [](/\ usettings[Owner] # Freed /\ settings # Freed
          /\ (ThreadSpawned /\ pc # "returned") =>
                (settings = usettings[Owner] /\ settings # NoSettings))
    /\ [][\A u \in Users :
             /\ (usettings'[u] = Freed /\ usettings[u] # Freed) =>
                   (u # Owner /\ Leaves(u))
             /\ Leaves(u) =>
                   /\ usettings[u] \notin {Freed, NoSettings}
                   /\ u # Owner => usettings'[u] = Freed
                   /\ display # NoDisplay => (display' # NoDisplay /\ display'.cursor # u)
                   /\ display = NoDisplay => display' = NoDisplay
         ]_vars

\* the guest and then the owner have left; the thread goes on with the
\* owner's settings
C24_Witness ==
    /\ usettings[1] = Freed /\ ustate[1] = "left" /\ ustate[Owner] = "left"
    /\ pc = "inner_wait" /\ settings = usettings[Owner] /\ display.cursor = NoUser

\* C26: whatever the settings of a guest are, everything the session does is
\* fixed by the owner's settings: the session's settings are the owner's,
\* the pixel format requested is that of the owner's colour depth, the
\* number of connection attempts is bounded by the owner's retries, every
\* update draws the pixels translated with the owner's swap-red-blue; and a
\* step that stores or frees a guest's settings changes nothing of the
\* session or of its thread.  (Two runs that differ only in a guest's
\* settings then agree on all of these.)
C26_State ==
    /\ settings \in {NoSettings, usettings[Owner]}
    /\ rfb # NoRfb => rfb.format = guac_vnc_set_pixel_format(usettings[Owner].color_depth)
    /\ ThreadSpawned => attempts <= usettings[Owner].retries + 1
    /\ NotFounds > 0 => attempts = usettings[Owner].retries + 1

C26_GuestSettingsDoNotInterfere ==
    /\ []C26_State
    /\ [][/\ (lastCb' # lastCb /\ lastCb'.kind = "update") =>
                \A c \in RectCells(lastCb'.rect) :
                    display'.px[c] = TranslatePixel(rfb'.frameBuffer[c], rfb'.format,
                                                    usettings[Owner].swap_red_blue)
          /\ \A g \in Guests : usettings'[g] # usettings[g] =>
                /\ UNCHANGED <<settings, rfb_client, copy_rect_used, state, rfb,
                               thrVars, paceVars, attempts, sleeps, aborts, lastCb,
                               calls>>
                /\ display # NoDisplay =>
                      (display' # NoDisplay /\ display'.px = display.px)
                /\ display = NoDisplay => display' = NoDisplay
         ]_vars

\* a guest whose settings differ from the owner's in every setting is
\* attached, and an update has been drawn with the owner's
C26_Witness ==
    /\ Attached(1) /\ usettings[Owner] = settings
    /\ usettings[1].swap_red_blue # settings.swap_red_blue
    /\ usettings[1].color_depth # settings.color_depth
    /\ usettings[1].retries # settings.retries
    /\ usettings[1].read_only # settings.read_only
    /\ lastCb.kind = "update" /\ display # NoDisplay
    /\ display.px[<<0, 0>>] = TranslatePixel(<<0, 255>>, rfb.format, settings.swap_red_blue)

\* C25: whenever a callback of the session thread or the end of a frame uses
\* the shared display it has been allocated, and no input or join handler
\* has dereferenced the display while it was NULL.
C25_DisplayAllocatedWhenUsed ==
    /\ pc \in {"handle", "inner_wait", "frame_end"} => display # NoDisplay
    /\ lastCb.kind \in {"update", "copyrect"} => display # NoDisplay
    /\ fault.fn \notin {"guac_vnc_user_mouse_handler", "guac_vnc_user_join_handler"}

====
